---- MODULE Spec2Model ----
(***************************************************************************)
(* ReportsTab: the reporting screen of the registration application.       *)
(* The screen issues two queries when it opens (approved and pending       *)
(* registrations), keeps an optional from/to date pair, and on every       *)
(* render filters the approved rows by approval time and derives the       *)
(* summary metrics from the filtered rows.                                 *)
(*                                                                         *)
(* Optional values (Date | undefined, a nullable column) are sequences of  *)
(* length at most one: Null is "absent", Some(v) is "present with value v".*)
(* Time is counted in ticks; a calendar day d is the ticks                 *)
(* d * TicksPerDay .. d * TicksPerDay + TicksPerDay - 1.                   *)
(***************************************************************************)
EXTENDS Integers, Sequences, FiniteSets, TLC

\* ---------------------------------------------------------------- bounds
MaxDay == 2
TicksPerDay == 2
MaxRows == 2
MaxPending == 2
MaxFee == 1
MaxId == 1

\* ------------------------------------------------------- optional values
Null == <<>>
Some(v) == <<v>>

\* ------------------------------------------------------------ data model
Days == 1..MaxDay
\* The Date the calendar hands to onSelect for day d: its local midnight.
DayDate(d) == d * TicksPerDay
Times == {d * TicksPerDay + k : d \in Days, k \in 0..(TicksPerDay - 1)}
OptTimes == {Null} \cup {Some(t) : t \in Times}
OptFees == {Null} \cup {Some(f) : f \in 0..MaxFee}
OptIds == {Null} \cup {Some(i) : i \in 1..MaxId}
\* What the calendar's onSelect can deliver: a day, or undefined (deselect).
OptDates == {Null} \cup {Some(DayDate(d)) : d \in Days}

\* interface Registration, reduced to the fields the screen computes with.
Registration(at, fee, cat, pan) ==
  [approved_at |-> at, fee_paid |-> fee, category_id |-> cat, panchayath_id |-> pan]

\* Approved rows the backend may hold: rows that vary the approval time,
\* rows that vary the fee, rows that vary the two identifiers.
DateRows == {Registration(at, Some(1), Some(1), Some(1)) : at \in OptTimes}
FeeRows == {Registration(Some(DayDate(1)), fee, Some(1), Some(1)) : fee \in OptFees}
IdRows == {Registration(Some(DayDate(1)), Some(1), cat, pan) : cat \in OptIds, pan \in OptIds}
Rows == DateRows \cup FeeRows \cup IdRows
\* The rows of the loader specification: one per day, and one never stamped.
LoaderRows == {Registration(at, Some(1), Some(1), Some(1)) : at \in OptDates}
\* A pending row carries no approval time.
PendingRows == {Registration(Null, fee, Some(1), Null) : fee \in OptFees}

OptRank(x) == IF x = Null THEN 0 ELSE x[1] + 1
\* .order('approved_at', { ascending: false }): latest first, NULLs first.
ApprovedRank(r) ==
  IF r.approved_at = Null THEN (MaxDay + 1) * TicksPerDay ELSE r.approved_at[1]
TieRank(r) ==
  (OptRank(r.fee_paid) * (MaxId + 2) + OptRank(r.category_id)) * (MaxId + 2)
    + OptRank(r.panchayath_id)
OrderedByApproval(s) ==
  \A i \in 1..Len(s) : \A j \in 1..Len(s) :
    i < j => \/ ApprovedRank(s[i]) > ApprovedRank(s[j])
             \/ /\ ApprovedRank(s[i]) = ApprovedRank(s[j])
                /\ TieRank(s[i]) <= TieRank(s[j])
SeqsUpTo(S, n) == UNION {[1..k -> S] : k \in 0..n}
ApprovedSets(universe) == {s \in SeqsUpTo(universe, MaxRows) : OrderedByApproval(s)}
PendingSets ==
  {s \in SeqsUpTo(PendingRows, MaxPending) :
     \A i \in 1..Len(s) : \A j \in 1..Len(s) :
       i < j => OptRank(s[i].fee_paid) <= OptRank(s[j].fee_paid)}

\* What a query resolves to: { data, error } with rows, with neither, with
\* an error, or a rejected promise.
Response(kind, rows) == [kind |-> kind, data |-> rows]
Responses(sets) ==
  {Response("data", s) : s \in sets}
    \cup {Response(k, <<>>) : k \in {"null", "error", "throw"}}
Failed(res) == res.kind \in {"error", "throw"}

VARIABLES
  dateFns,               \* major version of the date-fns build: 2 or 3
  fromDate, toDate,      \* useState<Date | undefined>
  registrations,         \* useState<Registration[]>([])
  pendingRegistrations,  \* useState<Registration[]>([])
  loading,               \* useState(true)
  approvedQuery,         \* fetchRegistrations: "awaiting" or "done"
  pendingQuery,          \* fetchPendingRegistrations: "awaiting" or "done"
  resA, resB,            \* what the two queries in flight will resolve to
  toasts,                \* notifications shown to the user
  consoleErrors,         \* developer log
  crashed,               \* a render threw: the screen is unmounted
  lastOp                 \* the handler that ran last

vars ==
  <<dateFns, fromDate, toDate, registrations, pendingRegistrations, loading,
    approvedQuery, pendingQuery, resA, resB, toasts, consoleErrors, crashed,
    lastOp>>

\* ------------------------------------------------------------- date-fns
startOfDay(t) == (t \div TicksPerDay) * TicksPerDay
endOfDay(t) == (t \div TicksPerDay) * TicksPerDay + (TicksPerDay - 1)

Outcome(b) == IF b THEN "true" ELSE "false"
\* The import of line 13 resolves against date-fns 2 as well as against
\* date-fns 3 and later, and the two differ on an interval whose start is
\* after its end: date-fns 2 throws RangeError("Invalid interval"), date-fns
\* 3 orders the two ends before it compares.  dateFns is the build's choice.
isWithinInterval(date, start, end) ==
  IF dateFns = 2
  THEN IF start > end THEN "throw" ELSE Outcome(date >= start /\ date <= end)
  ELSE LET lo == IF start <= end THEN start ELSE end
           hi == IF start <= end THEN end ELSE start
       IN  Outcome(date >= lo /\ date <= hi)

\* ------------------------------------------------- filter and aggregates
\* The callback of registrations.filter: "true", "false" or "throw".
filterCallback(registration, from, to) ==
  IF from = Null /\ to = Null THEN "true"
  ELSE IF registration.approved_at = Null THEN "false"
  ELSE LET registrationDate == registration.approved_at[1]
       IN  IF from # Null /\ to # Null
           THEN isWithinInterval(registrationDate, startOfDay(from[1]), endOfDay(to[1]))
           ELSE IF from # Null
           THEN Outcome(registrationDate >= startOfDay(from[1]))
           ELSE Outcome(registrationDate <= endOfDay(to[1]))

RECURSIVE Filter(_, _, _)
Filter(rows, from, to) ==
  IF rows = <<>> THEN <<>>
  ELSE IF filterCallback(Head(rows), from, to) = "true"
       THEN <<Head(rows)>> \o Filter(Tail(rows), from, to)
       ELSE Filter(Tail(rows), from, to)

\* The render throws when the filter callback throws on some row.
RenderThrows(rows, from, to) ==
  \E i \in 1..Len(rows) : filterCallback(rows[i], from, to) = "throw"

filteredRegistrations == Filter(registrations, fromDate, toDate)

\* reg.fee_paid || 0
FeeOrZero(reg) == IF reg.fee_paid = Null THEN 0 ELSE reg.fee_paid[1]

\* rows.reduce((sum, reg) => sum + (reg.fee_paid || 0), 0)
RECURSIVE SumFees(_)
SumFees(rows) ==
  IF rows = <<>> THEN 0
  ELSE SumFees(SubSeq(rows, 1, Len(rows) - 1)) + FeeOrZero(rows[Len(rows)])

\* Boolean(id) of a nullable identifier
Truthy(id) == id # Null

totalRegistrations == Len(filteredRegistrations)
totalFeesCollected == SumFees(filteredRegistrations)
\* Mutant: the category count drops falsy identifiers, as the panchayath count does.
totalCategories_dropsFalsy ==
  Cardinality({id \in {filteredRegistrations[i].category_id :
                          i \in 1..Len(filteredRegistrations)} : Truthy(id)})
totalCategories ==
  Cardinality({filteredRegistrations[i].category_id : i \in 1..Len(filteredRegistrations)})
totalPanchayaths ==
  Cardinality({id \in {filteredRegistrations[i].panchayath_id :
                          i \in 1..Len(filteredRegistrations)} : Truthy(id)})
\* Mutant: the date range is applied to the pending rows too.
pendingAmount_filtered == SumFees(Filter(pendingRegistrations, fromDate, toDate))
pendingAmount == SumFees(pendingRegistrations)

\* ---------------------------------------------------------------- actions
ApprovedError == "Error fetching registrations"
PendingError == "Error fetching pending registrations"

\* Mutant: the catch block logs a rejected query and shows no notification.
fetchRegistrations_silentCatch ==
  /\ approvedQuery = "awaiting"
  /\ approvedQuery' = "done"
  /\ IF Failed(resA)
     THEN /\ consoleErrors' = consoleErrors \cup {ApprovedError}
          /\ toasts' = (IF resA.kind = "throw" THEN toasts ELSE toasts \cup {ApprovedError})
          /\ UNCHANGED registrations
     ELSE /\ registrations' = (IF resA.kind = "null" THEN <<>> ELSE resA.data)
          /\ UNCHANGED <<consoleErrors, toasts>>
  /\ loading' = FALSE
  /\ crashed' = RenderThrows(registrations', fromDate, toDate)
  /\ lastOp' = "fetchRegistrations"
  /\ UNCHANGED <<dateFns, fromDate, toDate, pendingRegistrations, pendingQuery,
                 resA, resB>>

\* fetchRegistrations, from the point where its query resolves.
fetchRegistrations ==
  /\ approvedQuery = "awaiting"
  /\ approvedQuery' = "done"
  /\ IF Failed(resA)
     THEN /\ consoleErrors' = consoleErrors \cup {ApprovedError}
          /\ toasts' = toasts \cup {ApprovedError}
          /\ UNCHANGED registrations
     ELSE /\ registrations' = (IF resA.kind = "null" THEN <<>> ELSE resA.data)
          /\ UNCHANGED <<consoleErrors, toasts>>
  /\ loading' = FALSE
  /\ crashed' = RenderThrows(registrations', fromDate, toDate)
  /\ lastOp' = "fetchRegistrations"
  /\ UNCHANGED <<dateFns, fromDate, toDate, pendingRegistrations, pendingQuery,
                 resA, resB>>

\* Mutant: the pending fetch ends the loading view, as the approved fetch does.
fetchPendingRegistrations_endsLoading ==
  /\ pendingQuery = "awaiting"
  /\ pendingQuery' = "done"
  /\ IF Failed(resB)
     THEN /\ consoleErrors' = consoleErrors \cup {PendingError}
          /\ UNCHANGED pendingRegistrations
     ELSE /\ pendingRegistrations' =
               (IF crashed THEN pendingRegistrations
                ELSE IF resB.kind = "null" THEN <<>> ELSE resB.data)
          /\ UNCHANGED consoleErrors
  /\ loading' = FALSE
  /\ lastOp' = "fetchPendingRegistrations"
  /\ UNCHANGED <<dateFns, fromDate, toDate, registrations, approvedQuery,
                 resA, resB, toasts, crashed>>

\* Mutant: a failed pending fetch notifies the user, as the approved fetch does.
fetchPendingRegistrations_notifies ==
  /\ pendingQuery = "awaiting"
  /\ pendingQuery' = "done"
  /\ IF Failed(resB)
     THEN /\ consoleErrors' = consoleErrors \cup {PendingError}
          /\ toasts' = toasts \cup {PendingError}
          /\ UNCHANGED pendingRegistrations
     ELSE /\ pendingRegistrations' =
               (IF crashed THEN pendingRegistrations
                ELSE IF resB.kind = "null" THEN <<>> ELSE resB.data)
          /\ UNCHANGED <<consoleErrors, toasts>>
  /\ lastOp' = "fetchPendingRegistrations"
  /\ UNCHANGED <<dateFns, fromDate, toDate, registrations, loading, approvedQuery,
                 resA, resB, crashed>>

\* Mutant: the pending rows are stored with setRegistrations.
fetchPendingRegistrations_wrongSetter ==
  /\ pendingQuery = "awaiting"
  /\ pendingQuery' = "done"
  /\ IF Failed(resB)
     THEN /\ consoleErrors' = consoleErrors \cup {PendingError}
          /\ UNCHANGED registrations
     ELSE /\ registrations' =
               (IF crashed THEN registrations
                ELSE IF resB.kind = "null" THEN <<>> ELSE resB.data)
          /\ UNCHANGED consoleErrors
  /\ lastOp' = "fetchPendingRegistrations"
  /\ UNCHANGED <<dateFns, fromDate, toDate, pendingRegistrations, loading,
                 approvedQuery, resA, resB, toasts, crashed>>

\* fetchPendingRegistrations, from the point where its query resolves.  A
\* state update of the unmounted screen is dropped.
fetchPendingRegistrations ==
  /\ pendingQuery = "awaiting"
  /\ pendingQuery' = "done"
  /\ IF Failed(resB)
     THEN /\ consoleErrors' = consoleErrors \cup {PendingError}
          /\ UNCHANGED pendingRegistrations
     ELSE /\ pendingRegistrations' =
               (IF crashed THEN pendingRegistrations
                ELSE IF resB.kind = "null" THEN <<>> ELSE resB.data)
          /\ UNCHANGED consoleErrors
  /\ lastOp' = "fetchPendingRegistrations"
  /\ UNCHANGED <<dateFns, fromDate, toDate, registrations, loading, approvedQuery,
                 resA, resB, toasts, crashed>>

\* The date pickers and the Clear button exist once the loading view is gone.
Rendered == ~loading /\ ~crashed

\* onSelect={setFromDate}
setFromDate(d) ==
  /\ Rendered
  /\ fromDate' = d
  /\ crashed' = RenderThrows(registrations, d, toDate)
  /\ lastOp' = "setFromDate"
  /\ UNCHANGED <<dateFns, toDate, registrations, pendingRegistrations, loading,
                 approvedQuery, pendingQuery, resA, resB, toasts, consoleErrors>>

\* onSelect={setToDate}
setToDate(d) ==
  /\ Rendered
  /\ toDate' = d
  /\ crashed' = RenderThrows(registrations, fromDate, d)
  /\ lastOp' = "setToDate"
  /\ UNCHANGED <<dateFns, fromDate, registrations, pendingRegistrations, loading,
                 approvedQuery, pendingQuery, resA, resB, toasts, consoleErrors>>

\* Mutant: Clear resets the from bound only.
handleClear_keepsTo ==
  /\ Rendered
  /\ fromDate' = Null
  /\ crashed' = RenderThrows(registrations, Null, toDate)
  /\ lastOp' = "handleClear"
  /\ UNCHANGED <<dateFns, toDate, registrations, pendingRegistrations, loading,
                 approvedQuery, pendingQuery, resA, resB, toasts, consoleErrors>>

handleClear ==
  /\ Rendered
  /\ fromDate' = Null
  /\ toDate' = Null
  /\ crashed' = RenderThrows(registrations, Null, Null)
  /\ lastOp' = "handleClear"
  /\ UNCHANGED <<dateFns, registrations, pendingRegistrations, loading,
                 approvedQuery, pendingQuery, resA, resB, toasts, consoleErrors>>

\* --------------------------------------------------------- specifications
\* The screen right after it opened: both queries are in flight.
Init ==
  /\ dateFns \in {2, 3}
  /\ fromDate = Null
  /\ toDate = Null
  /\ registrations = <<>>
  /\ pendingRegistrations = <<>>
  /\ loading = TRUE
  /\ approvedQuery = "awaiting"
  /\ pendingQuery = "awaiting"
  /\ resA \in Responses(ApprovedSets(LoaderRows))
  /\ resB \in Responses(PendingSets)
  /\ toasts = {}
  /\ consoleErrors = {}
  /\ crashed = FALSE
  /\ lastOp = "mount"

Next ==
  \/ fetchRegistrations
  \/ fetchPendingRegistrations
  \/ \E d \in OptDates : setFromDate(d)
  \/ \E d \in OptDates : setToDate(d)
  \/ handleClear

Spec == Init /\ [][Next]_vars

\* The screen after both queries delivered rows, over the wider row universe:
\* the filter and the aggregates as functions of the approved set and bounds.
InitEngine ==
  /\ dateFns \in {2, 3}
  /\ fromDate = Null
  /\ toDate = Null
  /\ registrations \in ApprovedSets(Rows)
  /\ pendingRegistrations = [i \in 1..MaxPending |-> Registration(Null, Some(MaxFee), Some(1), Null)]
  /\ loading = FALSE
  /\ approvedQuery = "done"
  /\ pendingQuery = "done"
  /\ resA = Response("data", registrations)
  /\ resB = Response("data", pendingRegistrations)
  /\ toasts = {}
  /\ consoleErrors = {}
  /\ crashed = FALSE
  /\ lastOp = "fetchPendingRegistrations"

NextEngine ==
  \/ \E d \in OptDates : setFromDate(d)
  \/ \E d \in OptDates : setToDate(d)
  \/ handleClear

SpecEngine == InitEngine /\ [][NextEngine]_vars

\* ------------------------------------------------------------ properties
\* The filtering rule as the specification words it: no bound, every row;
\* otherwise the row has an approval time, not before start-of-day(from)
\* when from is set and not after end-of-day(to) when to is set.
InDateRange(reg) ==
  \/ fromDate = Null /\ toDate = Null
  \/ /\ reg.approved_at # Null
     /\ fromDate # Null => reg.approved_at[1] >= startOfDay(fromDate[1])
     /\ toDate # Null => reg.approved_at[1] <= endOfDay(toDate[1])
RowsInDateRange == SelectSeq(registrations, InDateRange)

\* from is not a later day than to, or one of them is unset.
OrderedBounds == fromDate = Null \/ toDate = Null \/ fromDate[1] <= toDate[1]

\* The sum of the fees, fee by fee: a fee f counts f for every row that
\* carries it, a row with no fee or a zero fee counts nothing.
RECURSIVE FeeTotal(_, _)
FeeTotal(rows, f) ==
  IF f = 0 THEN 0
  ELSE f * Cardinality({i \in 1..Len(rows) : rows[i].fee_paid = Some(f)})
         + FeeTotal(rows, f - 1)

\* s is t with some rows left out, the others in their order.
RECURSIVE IsSubsequence(_, _)
IsSubsequence(s, t) ==
  IF s = <<>> THEN TRUE
  ELSE IF t = <<>> THEN FALSE
  ELSE IF Head(s) = Head(t) THEN IsSubsequence(Tail(s), Tail(t))
  ELSE IsSubsequence(s, Tail(t))

\* The rows a response delivers to the screen.
Delivered(res) == IF res.kind = "data" THEN res.data ELSE <<>>

DateOps == {"setFromDate", "setToDate", "handleClear"}

\* C1 (as claimed): for every pair of bounds the filtered rows, whenever the
\* filter yields them, are exactly the approved rows inside
\* [start-of-day(from), end-of-day(to)], each bound applying only when set,
\* both ends inclusive, rows without approved_at excluded as soon as a
\* bound is set.
C1_FilterIsDateRange == ~crashed => filteredRegistrations = RowsInDateRange

\* C1, restricted to bounds in calendar order: there the filter is the rule.
C1_FilterIsDateRangeWhenOrdered ==
  OrderedBounds => ~crashed /\ filteredRegistrations = RowsInDateRange

C3_FilteredWithinApproved ==
  /\ ~crashed => IsSubsequence(filteredRegistrations, registrations)
  /\ lastOp = "handleClear" =>
       /\ fromDate = Null /\ toDate = Null
       /\ ~crashed
       /\ filteredRegistrations = registrations
C3_Witness ==
  /\ lastOp = "handleClear"
  /\ Len(registrations) = MaxRows
  /\ registrations[1] # registrations[MaxRows]

\* C4: the loading flag is true exactly while the approved query has not
\* resolved, however that query ends, and a step of the pending query
\* never changes it.
C4_LoadingFollowsApprovedQuery ==
  /\ [](loading <=> approvedQuery = "awaiting")
  /\ [][pendingQuery' # pendingQuery => loading' = loading]_vars
C4_Witness ==
  /\ pendingQuery = "done" /\ approvedQuery = "awaiting" /\ loading
  /\ resA.kind = "throw"

\* C5: once the approved query has failed (error result or rejection) the
\* user has been notified, the approved set is empty, the count is 0 under
\* every pair of bounds, the loading view is gone, the screen has not
\* crashed and the pending set is what the pending query delivered.
C5_ApprovedFailure ==
  (approvedQuery = "done" /\ Failed(resA)) =>
    /\ ApprovedError \in toasts
    /\ registrations = <<>>
    /\ totalRegistrations = 0
    /\ ~loading
    /\ ~crashed
    /\ pendingQuery = "done" => pendingRegistrations = Delivered(resB)
C5_Witness ==
  /\ approvedQuery = "done" /\ resA.kind = "throw"
  /\ pendingQuery = "done" /\ Len(pendingRegistrations) = MaxPending
  /\ fromDate # Null /\ toDate # Null /\ fromDate[1] > toDate[1]

\* C6: a failed pending query (error result or rejection) shows no
\* notification and only logs, leaves the pending set empty and the pending
\* amount 0, and changes neither the approved set, the bounds nor the
\* loading flag.
C6_PendingFailureIsSilent ==
  /\ []((pendingQuery = "done" /\ Failed(resB)) =>
          /\ pendingRegistrations = <<>>
          /\ pendingAmount = 0
          /\ PendingError \in consoleErrors
          /\ PendingError \notin toasts)
  /\ [][(pendingQuery' # pendingQuery /\ Failed(resB)) =>
          /\ toasts' = toasts
          /\ registrations' = registrations
          /\ fromDate' = fromDate /\ toDate' = toDate
          /\ loading' = loading]_vars
C6_Witness ==
  /\ pendingQuery = "done" /\ resB.kind = "error"
  /\ approvedQuery = "done" /\ registrations # <<>>
  /\ fromDate # Null

FreeRows == {r \in Rows : FeeOrZero(r) = 0}

\* C8, the part about the aggregates alone: the count and the fee total are
\* taken over the rows the filter kept, a missing fee counts 0, and one
\* more approved row with a zero or missing fee leaves the fee total as it
\* is.
C8_MetricsOverFilteredRows ==
  ~crashed =>
    /\ totalRegistrations =
         Cardinality({i \in 1..Len(registrations) :
                        filterCallback(registrations[i], fromDate, toDate) = "true"})
    /\ totalFeesCollected = FeeTotal(filteredRegistrations, MaxFee)
    /\ \A z \in FreeRows :
         ~RenderThrows(Append(registrations, z), fromDate, toDate) =>
           SumFees(Filter(Append(registrations, z), fromDate, toDate))
             = totalFeesCollected

\* C8 (as claimed): the above, and a row outside the date range adds to
\* neither metric: the count and the fee total are those of the approved
\* rows inside [start-of-day(from), end-of-day(to)].
C8_MetricsOverDateRange ==
  ~crashed =>
    /\ C8_MetricsOverFilteredRows
    /\ totalRegistrations = Len(RowsInDateRange)
    /\ totalFeesCollected = FeeTotal(RowsInDateRange, MaxFee)

\* The number of distinct values among ids, counted by first occurrence.
FirstOccurrences(ids) ==
  Cardinality({i \in 1..Len(ids) : \A j \in 1..(i - 1) : ids[j] # ids[i]})
CategoryIds == [i \in 1..Len(filteredRegistrations) |-> filteredRegistrations[i].category_id]
PanchayathIds == [i \in 1..Len(filteredRegistrations) |-> filteredRegistrations[i].panchayath_id]
AllLackBothIds ==
  \A i \in 1..Len(filteredRegistrations) :
    CategoryIds[i] = Null /\ PanchayathIds[i] = Null

\* C9: the category count is the number of distinct category_id values of
\* the filtered rows, a missing one being a value like any other; the
\* panchayath count is the number of distinct panchayath_id values that are
\* present; neither exceeds the row count; filtered rows that all lack both
\* identifiers give one category and no panchayath.
C9_DistinctCounts ==
  ~crashed =>
    /\ totalCategories = FirstOccurrences(CategoryIds)
    /\ totalPanchayaths =
         FirstOccurrences(SelectSeq(PanchayathIds, LAMBDA id : id # Null))
    /\ totalCategories <= totalRegistrations
    /\ totalPanchayaths <= totalRegistrations
    /\ (filteredRegistrations # <<>> /\ AllLackBothIds) =>
         totalCategories = 1 /\ totalPanchayaths = 0
C9_Witness ==
  /\ ~crashed
  /\ Len(filteredRegistrations) = MaxRows
  /\ AllLackBothIds
  /\ fromDate # Null /\ toDate # Null

\* C10: the approved query's completion leaves the pending set and the
\* bounds alone, the pending query's completion leaves the approved set,
\* the loading flag and the bounds alone, and once both have completed the
\* approved set, the pending set, the loading flag and the metrics are
\* those the two responses and the bounds determine, in whatever order the
\* steps were taken.
C10_QueriesAreIndependent ==
  /\ []((approvedQuery = "done" /\ pendingQuery = "done" /\ ~crashed) =>
          /\ registrations = Delivered(resA)
          /\ pendingRegistrations = Delivered(resB)
          /\ ~loading
          /\ totalRegistrations = Len(Filter(Delivered(resA), fromDate, toDate))
          /\ totalFeesCollected = SumFees(Filter(Delivered(resA), fromDate, toDate))
          /\ pendingAmount = SumFees(Delivered(resB)))
  /\ [][approvedQuery' # approvedQuery =>
          /\ pendingRegistrations' = pendingRegistrations
          /\ fromDate' = fromDate /\ toDate' = toDate]_vars
  /\ [][pendingQuery' # pendingQuery =>
          /\ registrations' = registrations
          /\ loading' = loading
          /\ fromDate' = fromDate /\ toDate' = toDate]_vars
C10_Witness ==
  /\ approvedQuery = "done" /\ pendingQuery = "done" /\ ~crashed
  /\ lastOp = "fetchPendingRegistrations"
  /\ fromDate # Null /\ toDate # Null
  /\ registrations # <<>> /\ pendingRegistrations # <<>>

====
